---- MODULE Spec2Model ----
(***************************************************************************)
(* Two-pass pagination of kaag_pdf.generator.PDFGenerator.                 *)
(*                                                                         *)
(* One PDFGenerator instance (its page-tracking fields and its styles) is  *)
(* used by the callers in Threads.  Each caller runs create_report, which  *)
(* invokes the caller-supplied content callback once per pass.  The        *)
(* callback is modelled by a script: the sequence of generator calls it    *)
(* makes (check_page_break, new_page), element drawings, and possibly a    *)
(* failure.  Lengths are exact integers in units of 1/127 pt, so that      *)
(* reportlab's mm (72/25.4 pt) is the integer 360.                         *)
(***************************************************************************)
EXTENDS Integers, Sequences, FiniteSets

VARIABLES
    styles,         \* self.styles: the PDFStyles fields check_page_break reads
    current_page,   \* self._current_page
    total_pages,    \* self._total_pages
    clock,          \* the wall clock datetime.now() reads
    pc,             \* pc[t]: where caller t is in create_report
    req,            \* req[t]: title, subtitle, content_callback of t's call
    canvas,         \* canvas[t]: the local Canvas of t's current pass
    cb,             \* cb[t]: the callback on its data: script, position, current_y
    obs,            \* obs[t]: what has been observed of t's call (history)
    result,         \* result[t]: the pages create_report returned to t
    calls,          \* number of create_report calls started on the instance
    prev            \* the request and bytes of the report the client kept

vars == <<styles, current_page, total_pages, clock, pc, req, canvas, cb, obs,
          result, calls, prev>>

----------------------------------------------------------------------------
(* Bounds of the model *)

MaxOps == 2          \* longest free-form callback script
MaxK == 4            \* most elements an equal-height callback draws
MaxCalls == 2        \* create_report calls made on the instance
MaxClock == 2        \* last instant the clock reaches
TicksPerDay == 2     \* clock instants in one calendar day
MaxRepeatOps == 1    \* longest script when two reports are compared
MaxConcOps == 1      \* longest script when two calls overlap

Threads == {"t1", "t2"}

None == "None"
Titles == {"Player Report"}
Subtitles == {None, "Season 2024-2025"}
Heights == {100, 300}

\* reportlab.lib.units.mm, in units of 1/127 pt
mm == 360

\* The value PDFHeader.draw returns: the y position below the header.
HeaderStartY == 4150

\* PDFStyles values the generator may be constructed with.
StylesChoices ==
    { [page_margin_bottom |-> 100, footer_height |-> 50],
      [page_margin_bottom |-> 100, footer_height |-> 200] }

----------------------------------------------------------------------------
(* The content callback: a script of operations *)

Op(o, h) == [op |-> o, h |-> h]

Ops == {Op("check", h) : h \in Heights} \cup {Op("draw", h) : h \in Heights}
          \cup {Op("new_page", 0), Op("raise", 0)}

ScriptsUpTo(n) == UNION {[1..m -> Ops] : m \in 0..n}

\* k elements of height h, each preceded by check_page_break(current_y, h)
Uniform(k, h) ==
    [i \in 1..(2 * k) |-> IF i % 2 = 1 THEN Op("check", h) ELSE Op("draw", h)]

UniformScripts == {Uniform(k, h) : k \in 0..MaxK, h \in Heights}

Scripts == ScriptsUpTo(MaxOps) \cup UniformScripts

----------------------------------------------------------------------------
(* reportlab's Canvas: finished pages and the page being drawn *)

NewCanvas == [pages |-> <<>>, page |-> <<>>]

ShowPage(cv) == [pages |-> Append(cv.pages, cv.page), page |-> <<>>]

Save(cv) == IF cv.page # <<>> THEN ShowPage(cv) ELSE cv

DrawItem(cv, item) == [cv EXCEPT !.page = Append(@, item)]

----------------------------------------------------------------------------
(* PDFGenerator *)

\* datetime.now().strftime("%d %B %Y"): the calendar day of the instant
DateOf(now) == now \div TicksPerDay

\* variant: the header shows the instant, not the day
DrawHeaderInstant(cv, title, subtitle, now) ==
    [cv |-> DrawItem(cv, [kind |-> "header", title |-> title,
                          subtitle |-> subtitle, date |-> now]),
     ret |-> HeaderStartY]

\* _draw_header: draws the header, returns the y position after it
DrawHeader(cv, title, subtitle, now) ==
    [cv |-> DrawItem(cv, [kind |-> "header", title |-> title,
                          subtitle |-> subtitle, date |-> DateOf(now)]),
     ret |-> HeaderStartY]

\* _draw_footer: reads self._total_pages and self._current_page
DrawFooter(cv, cur, total) ==
    DrawItem(cv, [kind |-> "footer", page |-> cur, total |-> total])

\* variant: the page counter is not incremented
SamePageNumber(cur) == cur

\* self._current_page += 1
NextPageNumber(cur) == cur + 1

\* variant: the footer is drawn on the outgoing page, before showPage
NewPageFooterFirst(cv, cur, total, title, subtitle, now) ==
    LET shown == ShowPage(DrawFooter(cv, cur, total))
        page  == cur + 1
        hdr   == DrawHeader(shown, title, subtitle, now)
    IN  [cv |-> hdr.cv, cur |-> page, ret |-> hdr.ret]

\* new_page, on self = (cur, total) and the canvas; returns start_y
NewPage(cv, cur, total, title, subtitle, now) ==
    LET shown == ShowPage(cv)
        page  == NextPageNumber(cur)
        hdr   == DrawHeader(shown, title, subtitle, now)
    IN  [cv |-> DrawFooter(hdr.cv, page, total), cur |-> page, ret |-> hdr.ret]

\* min_y = page_margin_bottom + footer_height + 10 * mm
MinY(st) == st.page_margin_bottom + st.footer_height + 10 * mm

\* variant: an element that fits exactly is moved to the next page
NeedsPageBreakStrict(current_y, needed_height, min_y) ==
    current_y - needed_height <= min_y

\* if current_y - needed_height < min_y
NeedsPageBreak(current_y, needed_height, min_y) ==
    current_y - needed_height < min_y

\* variant: the new page's start offset is dropped
CheckPageBreakKeepsY(cv, cur, total, st, current_y, needed_height, title, subtitle, now) ==
    IF NeedsPageBreak(current_y, needed_height, MinY(st))
    THEN [NewPage(cv, cur, total, title, subtitle, now) EXCEPT !.ret = current_y]
    ELSE [cv |-> cv, cur |-> cur, ret |-> current_y]

\* check_page_break
CheckPageBreak(cv, cur, total, st, current_y, needed_height, title, subtitle, now) ==
    IF NeedsPageBreak(current_y, needed_height, MinY(st))
    THEN NewPage(cv, cur, total, title, subtitle, now)
    ELSE [cv |-> cv, cur |-> cur, ret |-> current_y]

\* variant: the page cursor is left as the previous call left it
FirstPassNoReset(cur, total, title, subtitle, now) ==
    LET hdr == DrawHeader(NewCanvas, title, subtitle, now)
    IN  [cv |-> hdr.cv, cur |-> cur, total |-> total, ret |-> hdr.ret]

\* create_report, first pass up to the callback: a fresh canvas, the page
\* cursor reset, the header drawn
FirstPass(cur, total, title, subtitle, now) ==
    LET hdr == DrawHeader(NewCanvas, title, subtitle, now)
    IN  [cv |-> hdr.cv, cur |-> 1, total |-> 0, ret |-> hdr.ret]

\* variant: the total is not recorded after the counting pass
SecondPassNoTotal(cv, cur, total, title, subtitle, now) ==
    LET hdr == DrawHeader(NewCanvas, title, subtitle, now)
    IN  [cv |-> DrawFooter(hdr.cv, 1, total), cur |-> 1, total |-> total,
         ret |-> hdr.ret]

\* variant: the first page's footer is not drawn
SecondPassNoFooter(cv, cur, total, title, subtitle, now) ==
    LET hdr == DrawHeader(NewCanvas, title, subtitle, now)
    IN  [cv |-> hdr.cv, cur |-> 1, total |-> cur, ret |-> hdr.ret]

\* create_report between the callbacks: the counting canvas is finished and
\* dropped, the total recorded, the cursor reset, header and footer drawn
SecondPass(cv, cur, total, title, subtitle, now) ==
    LET counted == ShowPage(cv)
        pages   == cur
        hdr     == DrawHeader(NewCanvas, title, subtitle, now)
    IN  [cv |-> DrawFooter(hdr.cv, 1, pages), cur |-> 1, total |-> pages,
         ret |-> hdr.ret]

\* create_report after the second callback: canvas.save(), buffer.getvalue()
Finish(cv) == Save(cv).pages

----------------------------------------------------------------------------
(* State *)

NoBytes == <<>>
IdleReq == [title |-> None, subtitle |-> None, has_cb |-> FALSE]
IdleCb  == [script |-> <<>>, pos |-> 1, y |-> 0, pure |-> TRUE]
IdleObs == [countBreaks |-> 0, renderBreaks |-> 0, cbCalls |-> 0,
            failedIn |-> "none", began |-> 0]
NoReport == [req |-> IdleReq, script |-> <<>>, pages |-> NoBytes, began |-> 0]

Init ==
    /\ styles \in StylesChoices
    /\ current_page = 0
    /\ total_pages = 0
    /\ clock = 0
    /\ pc = [t \in Threads |-> "idle"]
    /\ req = [t \in Threads |-> IdleReq]
    /\ canvas = [t \in Threads |-> NewCanvas]
    /\ cb = [t \in Threads |-> IdleCb]
    /\ obs = [t \in Threads |-> IdleObs]
    /\ result = [t \in Threads |-> NoBytes]
    /\ calls = 0
    /\ prev = NoReport

InCallback(t) == pc[t] \in {"count", "render"} /\ cb[t].pos <= Len(cb[t].script)
CallbackDone(t) == cb[t].pos > Len(cb[t].script)
CurOp(t) == cb[t].script[cb[t].pos]
Quiet(t) == \A u \in Threads \ {t} : pc[u] = "idle"

\* page breaks a step added to the pass it ran in
Broke(t, n) ==
    IF pc[t] = "count"
    THEN [obs EXCEPT ![t].countBreaks = @ + n]
    ELSE [obs EXCEPT ![t].renderBreaks = @ + n]

----------------------------------------------------------------------------
(* Actions *)

\* t calls create_report(title, subtitle, content_callback, data); the
\* callback on that data behaves as one of the scripts in S
Begin(t, S) ==
    /\ pc[t] = "idle"
    /\ calls < MaxCalls
    /\ \E title \in Titles, subtitle \in Subtitles, has_cb \in BOOLEAN,
          script \in S :
        /\ has_cb \/ script = <<>>
        /\ LET r == FirstPass(current_page, total_pages, title, subtitle, clock)
           IN  /\ current_page' = r.cur
               /\ total_pages' = r.total
               /\ canvas' = [canvas EXCEPT ![t] = r.cv]
               /\ cb' = [cb EXCEPT ![t] = [script |-> script, pos |-> 1,
                                           y |-> r.ret, pure |-> TRUE]]
        /\ req' = [req EXCEPT ![t] = [title |-> title, subtitle |-> subtitle,
                                      has_cb |-> has_cb]]
        /\ obs' = [obs EXCEPT ![t] =
                     [IdleObs EXCEPT !.cbCalls = IF has_cb THEN 1 ELSE 0,
                                     !.began = clock]]
    /\ pc' = [pc EXCEPT ![t] = "count"]
    /\ result' = [result EXCEPT ![t] = NoBytes]
    /\ calls' = calls + 1
    /\ UNCHANGED <<styles, clock, prev>>

\* the callback calls generator.check_page_break(canvas, current_y, h, ...)
CallbackCheck(t) ==
    /\ InCallback(t)
    /\ CurOp(t).op = "check"
    /\ LET r == CheckPageBreak(canvas[t], current_page, total_pages, styles,
                               cb[t].y, CurOp(t).h, req[t].title,
                               req[t].subtitle, clock)
       IN  /\ canvas' = [canvas EXCEPT ![t] = r.cv]
           /\ current_page' = r.cur
           /\ cb' = [cb EXCEPT ![t].y = r.ret, ![t].pos = @ + 1]
           /\ obs' = Broke(t, Len(r.cv.pages) - Len(canvas[t].pages))
    /\ UNCHANGED <<styles, total_pages, clock, pc, req, result, calls, prev>>

\* the callback calls generator.new_page(canvas, ...)
CallbackNewPage(t) ==
    /\ InCallback(t)
    /\ CurOp(t).op = "new_page"
    /\ LET r == NewPage(canvas[t], current_page, total_pages, req[t].title,
                        req[t].subtitle, clock)
       IN  /\ canvas' = [canvas EXCEPT ![t] = r.cv]
           /\ current_page' = r.cur
           /\ cb' = [cb EXCEPT ![t].y = r.ret, ![t].pos = @ + 1]
           /\ obs' = Broke(t, Len(r.cv.pages) - Len(canvas[t].pages))
    /\ UNCHANGED <<styles, total_pages, clock, pc, req, result, calls, prev>>

\* the callback draws an element of height h at current_y and moves down
CallbackDraw(t) ==
    /\ InCallback(t)
    /\ CurOp(t).op = "draw"
    /\ canvas' = [canvas EXCEPT ![t] =
                    DrawItem(@, [kind |-> "element", h |-> CurOp(t).h,
                                 y |-> cb[t].y])]
    /\ cb' = [cb EXCEPT ![t].y = @ - CurOp(t).h, ![t].pos = @ + 1]
    /\ UNCHANGED <<styles, current_page, total_pages, clock, pc, req, obs,
                   result, calls, prev>>

\* variant: the exception is swallowed and create_report carries on
Swallow(p) == p

\* where an exception raised inside the callback leaves create_report
Propagate(p) == "raised"

\* the callback fails: create_report has no handler
CallbackRaise(t) ==
    /\ InCallback(t)
    /\ CurOp(t).op = "raise"
    /\ pc' = [pc EXCEPT ![t] = Propagate(pc[t])]
    /\ obs' = [obs EXCEPT ![t].failedIn = pc[t]]
    /\ cb' = [cb EXCEPT ![t].pos = @ + 1]
    /\ UNCHANGED <<styles, current_page, total_pages, clock, req, canvas,
                   result, calls, prev>>

\* the counting callback has returned (or there is none): create_report
\* goes on to the second pass; a callback with hidden state may now behave
\* as another script, one of S
BeginSecondPass(t, S) ==
    /\ pc[t] = "count"
    /\ CallbackDone(t)
    /\ LET r == SecondPass(canvas[t], current_page, total_pages,
                           req[t].title, req[t].subtitle, clock)
       IN  /\ canvas' = [canvas EXCEPT ![t] = r.cv]
           /\ current_page' = r.cur
           /\ total_pages' = r.total
           /\ \E script \in {cb[t].script} \cup (IF req[t].has_cb THEN S ELSE {}) :
                cb' = [cb EXCEPT ![t] = [script |-> script, pos |-> 1,
                                         y |-> r.ret,
                                         pure |-> script = cb[t].script]]
    /\ obs' = [obs EXCEPT ![t].cbCalls = @ + (IF req[t].has_cb THEN 1 ELSE 0)]
    /\ pc' = [pc EXCEPT ![t] = "render"]
    /\ UNCHANGED <<styles, clock, req, result, calls, prev>>

\* the rendering callback has returned: save and return the bytes
EndReport(t) ==
    /\ pc[t] = "render"
    /\ CallbackDone(t)
    /\ result' = [result EXCEPT ![t] = Finish(canvas[t])]
    /\ pc' = [pc EXCEPT ![t] = "done"]
    /\ UNCHANGED <<styles, current_page, total_pages, clock, req, canvas, cb,
                   obs, calls, prev>>

\* the caller has its bytes or its exception; the call's locals are gone
Leave(t) ==
    /\ pc' = [pc EXCEPT ![t] = "idle"]
    /\ req' = [req EXCEPT ![t] = IdleReq]
    /\ canvas' = [canvas EXCEPT ![t] = NewCanvas]
    /\ cb' = [cb EXCEPT ![t] = IdleCb]
    /\ obs' = [obs EXCEPT ![t] = IdleObs]
    /\ result' = [result EXCEPT ![t] = NoBytes]
    /\ UNCHANGED <<styles, current_page, total_pages, clock, calls>>

Return(t) ==
    /\ pc[t] \in {"done", "raised"}
    /\ Leave(t)
    /\ UNCHANGED prev

\* a client that keeps the first report it got, to compare later ones
ReturnKeep(t) ==
    /\ pc[t] \in {"done", "raised"}
    /\ Leave(t)
    /\ prev' = IF pc[t] = "done" /\ prev = NoReport
               THEN [req |-> req[t], script |-> cb[t].script,
                     pages |-> result[t], began |-> obs[t].began]
               ELSE prev

Tick ==
    /\ clock < MaxClock
    /\ clock' = clock + 1
    /\ UNCHANGED <<styles, current_page, total_pages, pc, req, canvas, cb,
                   obs, result, calls, prev>>

----------------------------------------------------------------------------
(* Specifications *)

\* calls on the instance follow one another; callbacks may have hidden state
BeginSeq(t) == Quiet(t) /\ Begin(t, Scripts)
SecondPassAny(t) == BeginSecondPass(t, Scripts)

Next ==
    \E t \in Threads :
        \/ BeginSeq(t)
        \/ CallbackCheck(t)
        \/ CallbackNewPage(t)
        \/ CallbackDraw(t)
        \/ CallbackRaise(t)
        \/ SecondPassAny(t)
        \/ EndReport(t)
        \/ Return(t)

Spec == Init /\ [][Next]_vars

\* calls on the instance overlap; callbacks are pure
BeginConc(t) == Begin(t, ScriptsUpTo(MaxConcOps))
SecondPassPure(t) == BeginSecondPass(t, {})

NextConc ==
    \E t \in Threads :
        \/ BeginConc(t)
        \/ CallbackCheck(t)
        \/ CallbackNewPage(t)
        \/ CallbackDraw(t)
        \/ CallbackRaise(t)
        \/ SecondPassPure(t)
        \/ EndReport(t)
        \/ Return(t)

SpecConc == Init /\ [][NextConc]_vars

\* one client calls again and again while the clock runs; callbacks are
\* pure and the client keeps the first report
Client == "t1"
BeginRepeat(t) == t = Client /\ Begin(t, ScriptsUpTo(MaxRepeatOps))

NextRepeat ==
    \/ Tick
    \/ \E t \in Threads :
        \/ BeginRepeat(t)
        \/ CallbackCheck(t)
        \/ CallbackNewPage(t)
        \/ CallbackDraw(t)
        \/ CallbackRaise(t)
        \/ SecondPassPure(t)
        \/ EndReport(t)
        \/ ReturnKeep(t)

SpecRepeat == Init /\ [][NextRepeat]_vars

----------------------------------------------------------------------------
(* Properties *)

Kinds(page, kind) == {i \in DOMAIN page : page[i].kind = kind}
FootersOf(page) == {page[i] : i \in Kinds(page, "footer")}
Footer(i, n) == [kind |-> "footer", page |-> i, total |-> n]

\* every page of doc carries exactly one footer, "page i of n" on page i
NumberedOneToN(doc, n) ==
    /\ Len(doc) = n
    /\ \A i \in 1..n :
        /\ Cardinality(Kinds(doc[i], "footer")) = 1
        /\ FootersOf(doc[i]) = {Footer(i, n)}

\* the pages of t's canvas so far, the one being drawn last
Drawn(t) == Append(canvas[t].pages, canvas[t].page)

\* room for content on a fresh page
Available == HeaderStartY - (styles.page_margin_bottom + styles.footer_height + 10 * mm)

\* C1: a callback that breaks the page N times in the counting pass and N
\* times in the rendering pass yields a document of N+1 pages, page i
\* carrying exactly one footer, "i of N+1".
C1_PagesAndFooters ==
    \A t \in Threads :
        (pc[t] = "done" /\ obs[t].renderBreaks = obs[t].countBreaks)
            => NumberedOneToN(result[t], obs[t].countBreaks + 1)

C1_Witness ==
    \E t \in Threads :
        /\ pc[t] = "done"
        /\ obs[t].countBreaks = 2
        /\ obs[t].renderBreaks = 2
        /\ ~cb[t].pure
        /\ Len(result[t]) = 3

\* C3: with no callback, or a callback that never starts a new page, the
\* total page count is 1 and the document is one page with one header and
\* one footer, "1 of 1".
C3_SinglePage ==
    \A t \in Threads :
        (pc[t] = "done" /\ obs[t].countBreaks = 0 /\ obs[t].renderBreaks = 0)
            => /\ total_pages = 1
               /\ Len(result[t]) = 1
               /\ Cardinality(Kinds(result[t][1], "header")) = 1
               /\ Cardinality(Kinds(result[t][1], "footer")) = 1
               /\ FootersOf(result[t][1]) = {Footer(1, 1)}

C3_Witness ==
    \E t \in Threads :
        /\ pc[t] = "done"
        /\ req[t].has_cb
        /\ cb[t].script = <<Op("check", 300), Op("draw", 300)>>
        /\ obs[t].countBreaks = 0
        /\ obs[t].renderBreaks = 0
        /\ Len(result[t]) = 1

\* the step of t is a call of check_page_break(current_y, needed_height)
CheckStep(t) ==
    /\ InCallback(t)
    /\ CurOp(t).op = "check"
    /\ cb'[t].pos = cb[t].pos + 1

\* C2: check_page_break returns current_y unchanged when
\* current_y - needed_height >= min_y, with min_y = page_margin_bottom +
\* footer_height + 10 mm, and otherwise returns the start offset that
\* drawing the header of the newly started page returned.
C2_ReturnValue ==
    [][\A t \in Threads :
        CheckStep(t) =>
            LET current_y == cb[t].y
                needed_height == CurOp(t).h
                min_y == styles.page_margin_bottom + styles.footer_height + 10 * mm
                incoming == DrawHeader(ShowPage(canvas[t]), req[t].title,
                                       req[t].subtitle, clock)
            IN  IF current_y - needed_height >= min_y
                THEN cb'[t].y = current_y
                ELSE /\ cb'[t].y = incoming.ret
                     /\ canvas'[t].pages = Append(canvas[t].pages, canvas[t].page)
                     /\ Kinds(canvas'[t].page, "header") = {1}
      ]_vars

\* a check that left current_y alone, then a check that broke the page
C2_Witness ==
    \E t \in Threads :
        /\ pc[t] = "render"
        /\ cb[t].script = Uniform(2, 300)
        /\ Available = 400
        /\ cb[t].pos = 4
        /\ cb[t].y = HeaderStartY
        /\ obs[t].renderBreaks = 1

\* the step of t starts a new page: new_page, or a check_page_break that
\* finds too little room
BreakStep(t) ==
    /\ InCallback(t)
    /\ cb'[t].pos = cb[t].pos + 1
    /\ \/ CurOp(t).op = "new_page"
       \/ /\ CurOp(t).op = "check"
          /\ cb[t].y - CurOp(t).h < MinY(styles)

\* C10: a check_page_break call starts at most one page: the page counter
\* goes up by exactly 1 when current_y - needed_height < min_y, and counter
\* and canvas are untouched otherwise; a height that exceeds the room of a
\* fresh page always breaks, and the returned offset still does not fit it.
C10_AtMostOnePage ==
    [][\A t \in Threads :
        CheckStep(t) =>
            LET current_y == cb[t].y
                needed_height == CurOp(t).h
                min_y == styles.page_margin_bottom + styles.footer_height + 10 * mm
                breaks == current_y - needed_height < min_y
            IN  /\ breaks => /\ current_page' = current_page + 1
                             /\ Len(canvas'[t].pages) = Len(canvas[t].pages) + 1
                /\ ~breaks => /\ current_page' = current_page
                              /\ canvas'[t] = canvas[t]
                /\ (breaks /\ needed_height > Available)
                        => cb'[t].y - needed_height < min_y
                /\ (needed_height > Available /\ current_y <= HeaderStartY)
                        => breaks
      ]_vars

\* two checks in a row for a height no fresh page has room for: two breaks
C10_Witness ==
    \E t \in Threads :
        /\ pc[t] = "count"
        /\ cb[t].script = <<Op("check", 300), Op("check", 300)>>
        /\ Available < 300
        /\ cb[t].pos = 3
        /\ obs[t].countBreaks = 2
        /\ current_page = 3

\* C4 as stated: no footer is drawn in the counting pass, and in the
\* rendering pass a break draws the footer of the outgoing page before the
\* counter is incremented and the incoming header drawn, so that a page
\* just begun has no footer yet.
C4_FooterOnlyWhenRendering ==
    \A t \in Threads :
        /\ pc[t] = "count" =>
              \A i \in 1..Len(Drawn(t)) : Kinds(Drawn(t)[i], "footer") = {}
        /\ (pc[t] = "render" /\ obs[t].renderBreaks > 0) =>
              /\ Kinds(canvas[t].page, "footer") = {}
              /\ \A i \in 1..Len(canvas[t].pages) :
                    LET p == canvas[t].pages[i]
                    IN  p[Len(p)] = Footer(i, total_pages)

\* C4 amended: in either pass a break finishes the outgoing page as it is,
\* increments the page counter, and draws on the incoming page its header
\* and then its footer, showing the incremented counter and the current
\* total; in the counting pass that total is 0 and the first page has no
\* footer, in the rendering pass every page has its footer from the start.
C4_FooterOfIncomingPage ==
    /\ [][\A t \in Threads :
            BreakStep(t) =>
                /\ canvas'[t].pages = Append(canvas[t].pages, canvas[t].page)
                /\ current_page' = current_page + 1
                /\ Len(canvas'[t].page) = 2
                /\ canvas'[t].page[1].kind = "header"
                /\ canvas'[t].page[2] = Footer(current_page + 1, total_pages)
         ]_vars
    /\ [](\A t \in Threads :
            /\ pc[t] = "count" =>
                  /\ Kinds(Drawn(t)[1], "footer") = {}
                  /\ \A i \in 2..Len(Drawn(t)) :
                        FootersOf(Drawn(t)[i]) = {Footer(i, 0)}
            /\ pc[t] = "render" =>
                  \A i \in 1..Len(Drawn(t)) :
                        FootersOf(Drawn(t)[i]) = {Footer(i, total_pages)})

\* a break in the counting pass has drawn a footer "2 of 0"
C4_Witness ==
    \E t \in Threads :
        /\ pc[t] = "count"
        /\ obs[t].countBreaks = 1
        /\ canvas[t].page[2] = Footer(2, 0)

\* C9: a callback failure in either pass leaves create_report at once, with
\* no bytes returned and the callback not invoked again; a failure in the
\* counting pass leaves the total page count at 0 and no second pass begun.
C9_FailurePropagates ==
    \A t \in Threads :
        obs[t].failedIn # "none" =>
            /\ pc[t] = "raised"
            /\ result[t] = NoBytes
            /\ obs[t].cbCalls = IF obs[t].failedIn = "count" THEN 1 ELSE 2
            /\ obs[t].failedIn = "count" =>
                  /\ total_pages = 0
                  /\ obs[t].renderBreaks = 0
                  /\ Kinds(Drawn(t)[1], "footer") = {}

C9_Witness ==
    /\ \E t \in Threads :
        /\ pc[t] = "raised"
        /\ obs[t].failedIn = "count"
        /\ obs[t].countBreaks = 1
        /\ calls = 2

\* C6: whatever earlier calls left behind, a call starts each pass with the
\* page counter at 1 (from then on it is 1 plus the pass's page breaks),
\* keeps the total at 0 throughout the counting pass, also when that pass
\* is aborted, and throughout the rendering pass keeps it at the counting
\* pass's final page counter; the total changes only on entering a pass.
C6_FreshCursor ==
    /\ [](\A t \in Threads :
            /\ pc[t] = "count" =>
                  /\ current_page = 1 + obs[t].countBreaks
                  /\ total_pages = 0
            /\ (pc[t] = "raised" /\ obs[t].failedIn = "count") =>
                  total_pages = 0
            /\ pc[t] \in {"render", "done"} =>
                  /\ current_page = 1 + obs[t].renderBreaks
                  /\ total_pages = 1 + obs[t].countBreaks
            /\ (pc[t] = "raised" /\ obs[t].failedIn = "render") =>
                  total_pages = 1 + obs[t].countBreaks)
    /\ [][total_pages' # total_pages =>
            \E t \in Threads :
                \/ pc[t] = "idle" /\ pc'[t] = "count" /\ total_pages' = 0
                \/ pc[t] = "count" /\ pc'[t] = "render"
                      /\ total_pages' = current_page
         ]_vars

\* a second call in its counting pass, after a call that left a total
C6_Witness ==
    \E t \in Threads :
        /\ calls = 2
        /\ pc[t] = "count"
        /\ obs[t].countBreaks = 1
        /\ cb[t].pos = 3

CeilDiv(a, b) == (a + b - 1) \div b

\* t has finished a report whose callback drew k elements of height h,
\* checking for a page break before each
DrewUniform(t, k, h) ==
    /\ pc[t] = "done"
    /\ req[t].has_cb
    /\ cb[t].pure
    /\ cb[t].script = Uniform(k, h)
    /\ 0 < h
    /\ h <= Available

\* C8 as stated: k elements of height h with A units available per page
\* give ceil(k / floor(A/h)) pages, footers numbered 1..that total.
C8_UniformPages ==
    \A t \in Threads, k \in 0..MaxK, h \in Heights :
        DrewUniform(t, k, h) =>
            NumberedOneToN(result[t], CeilDiv(k, Available \div h))

\* C8 amended: the same for k >= 1; a callback that draws no element
\* (k = 0) gives one page, not ceil(0 / floor(A/h)) = 0 pages.
C8_UniformPagesAtLeastOne ==
    \A t \in Threads, k \in 0..MaxK, h \in Heights :
        DrewUniform(t, k, h) =>
            NumberedOneToN(result[t],
                           IF k >= 1 THEN CeilDiv(k, Available \div h) ELSE 1)

\* 3 elements of 300 with 400 available: 3 pages
C8_Witness ==
    \E t \in Threads :
        /\ DrewUniform(t, 3, 300)
        /\ Available = 400
        /\ NumberedOneToN(result[t], 3)

----------------------------------------------------------------------------
(* Properties of SpecRepeat *)

\* t has finished a report for the request and callback behaviour of the
\* report the client kept
SameRequest(t) ==
    /\ pc[t] = "done"
    /\ prev # NoReport
    /\ prev.req = req[t]
    /\ prev.script = cb[t].script

Undated(doc) ==
    [i \in DOMAIN doc |->
        [j \in DOMAIN doc[i] |->
            IF doc[i][j].kind = "header"
            THEN [doc[i][j] EXCEPT !.date = 0]
            ELSE doc[i][j]]]

DatesOf(doc) ==
    UNION {{doc[i][j].date : j \in Kinds(doc[i], "header")} : i \in DOMAIN doc}

\* C5 as stated: two calls with the same title, subtitle, data and pure
\* callback return the same document, whatever the clock reads.
C5_SameOutput ==
    \A t \in Threads : SameRequest(t) => result[t] = prev.pages

\* C5 amended: the two documents are the same up to the date fields of
\* their headers, and the same when the later call ends on the calendar
\* day on which the earlier call began.
C5_SameOutputSameDay ==
    \A t \in Threads :
        SameRequest(t) =>
            /\ Undated(result[t]) = Undated(prev.pages)
            /\ clock \div TicksPerDay = prev.began \div TicksPerDay
                  => result[t] = prev.pages

\* the same report made twice on one day, at different instants, two pages
C5_Witness ==
    \E t \in Threads :
        /\ SameRequest(t)
        /\ clock = 1
        /\ Len(result[t]) = 2
        /\ prev.began = 0
        /\ DatesOf(result[t]) \cup DatesOf(prev.pages) = {0}

----------------------------------------------------------------------------
(* Properties of SpecConc *)

\* C7: when two calls overlap on the instance, each call's footers still
\* show its own page numbers and its own total.
C7_OwnNumbering ==
    \A t \in Threads :
        pc[t] \in {"render", "done"} =>
            \A i \in 1..Len(Drawn(t)) :
                \A f \in FootersOf(Drawn(t)[i]) :
                    f = Footer(i, 1 + obs[t].countBreaks)

====
